---------------------------- MODULE Spec2Model ----------------------------
(***************************************************************************)
(* Structured mesh generation and geometric classification of the TV wall  *)
(* mount optimizer: src/src/utils/mesh_utilities.py (grid generator),      *)
(* src/src/core/tv_mount_optimizer.py (TVMountOptimizer) and               *)
(* src/TvSupport.py (the stand-alone mesh script).  Both callers get       *)
(* create_3d_mesh through the mesh_tool compatibility layer                *)
(* (src/mesh_tool.py), which re-exports the one of mesh_utilities.py.      *)
(*                                                                         *)
(* Spec follows the entry points: direct calls of create_3d_mesh and       *)
(* write_ansys_mesh, the script, and the optimizer with its configuration, *)
(* generate_adaptive_mesh, generate_xml_configurations and                 *)
(* run_optimization on a file system.  SpecInterleaved follows the two     *)
(* loops of generate_adaptive_mesh step by step in every order.            *)
(*                                                                         *)
(* Real numbers are exact rationals <<n, d>> in lowest terms, d > 0.  The  *)
(* inputs of the model are chosen so that the IEEE double arithmetic of    *)
(* the Python code gives the same comparisons and truncations as exact     *)
(* arithmetic on them.                                                     *)
(***************************************************************************)
EXTENDS Integers, Sequences, FiniteSets, TLC

VARIABLES
    scenario,         \* which entry point this process runs
    created,          \* the last direct create_3d_mesh call: arguments and outcome
    geometry,         \* TVMountOptimizer.geometry (GeometryConfig)
    base_resolution,  \* TVMountOptimizer.mesh_config.base_resolution
    load_cases,       \* TVMountOptimizer.load_cases
    mesh,             \* TVMountOptimizer.mesh: <<>> is None, <<m>> a mesh
    generated,        \* last return value of generate_adaptive_mesh
    built_from,       \* history: the configuration self.mesh was generated from
    regenerated,      \* history: self.mesh replaced a mesh of another configuration
    script_element,   \* TvSupport.py: one element of its mesh after the assignment loop
    files,            \* the file system: the set of files, each a path and its content
    dirs,             \* the file system: the set of directories that exist
    cwd,              \* the current working directory of the process
    material_properties,  \* TVMountOptimizer.material_properties
    config_file,      \* history: the config_file argument of the constructor
    results,          \* TVMountOptimizer.results: <<>> is the empty dict
    now,              \* the wall clock, int(time.time())
    last_call,        \* history: the last run_optimization / generate_xml_configurations call
    task_mesh,        \* interleaved execution: self.mesh while the two loops run
    classified,       \* interleaved execution: elements the loop of _define_regions has done
    selected,         \* interleaved execution: nodes the loop of _define_boundary_conditions has done
    back_list,        \* interleaved execution: the local list back_support
    force_lists,      \* interleaved execution: the local dict force_sets
    appended,         \* interleaved execution: the entries have been appended to self.mesh.bc
    mixed             \* history: an element was classified in the middle of the node loop

disk == <<files, dirs, cwd>>
settings == <<material_properties, config_file>>
pipeline == <<results, now, last_call>>

tasks == <<task_mesh, classified, selected, back_list, force_lists, appended, mixed>>

vars == <<scenario, created, geometry, base_resolution, load_cases, mesh, generated,
          built_from, regenerated, script_element, disk, settings, pipeline, tasks>>

-----------------------------------------------------------------------------
(* Exact rational arithmetic *)

Abs(n) == IF n < 0 THEN -n ELSE n

RECURSIVE GCD(_, _)
GCD(a, b) == IF b = 0 THEN a ELSE GCD(b, a % b)

\* n/d in lowest terms with a positive denominator (d # 0)
Frac(n, d) ==
    LET g == GCD(Abs(n), Abs(d))
        s == IF d < 0 THEN -1 ELSE 1
    IN  <<(s * n) \div g, (s * d) \div g>>

R(n) == <<n, 1>>

RAdd(a, b) == Frac(a[1] * b[2] + b[1] * a[2], a[2] * b[2])
RSub(a, b) == Frac(a[1] * b[2] - b[1] * a[2], a[2] * b[2])
RMul(a, b) == Frac(a[1] * b[1], a[2] * b[2])
RDiv(a, b) == Frac(a[1] * b[2], a[2] * b[1])
RLt(a, b) == a[1] * b[2] < b[1] * a[2]
RLe(a, b) == a[1] * b[2] <= b[1] * a[2]
RBetween(lo, x, hi) == RLt(lo, x) /\ RLt(x, hi)

\* Python int(x): truncation toward zero
Trunc(a) == IF a[1] >= 0 THEN a[1] \div a[2] ELSE -((-a[1]) \div a[2])

Max(a, b) == IF a >= b THEN a ELSE b

None == <<>>

-----------------------------------------------------------------------------
(* Grid generator: src/src/utils/mesh_utilities.py *)

\* float division a / b raises ZeroDivisionError exactly when b = 0
DivRaises(b) == b = 0

\* the list a loop builds: what its iterations append, in iteration order
RECURSIVE Flatten(_, _, _)
Flatten(parts, lo, hi) ==
    IF lo > hi THEN <<>>
    ELSE IF lo = hi THEN parts[lo]
    ELSE LET mid == (lo + hi) \div 2
         IN  Flatten(parts, lo, mid) \o Flatten(parts, mid + 1, hi)

Concat(parts) == Flatten(parts, 1, Len(parts))

\* mutant: the node loops run over range(n), one lattice plane short
NodeLoopBoundShort(n) == n

\* the upper bounds of the three node loops (range(nz + 1), range(ny + 1), range(nx + 1))
NodeLoopBound(n) == n + 1

\* mutant: the lattice index counted from 1
NodeCoordinateFromOne(i, d) == RMul(R(i + 1), d)

\* x = i * dx, y = j * dy, z = k * dz
NodeCoordinate(i, d) == RMul(R(i), d)

\* the coordinates the node loops compute along one axis: that of the index
\* i - 1 of range(n + 1) at position i
AxisNodes(n, d) == [i \in 1..NodeLoopBound(n) |-> NodeCoordinate(i - 1, d)] \o <<>>

\* the three nested node loops, z outermost, appending (x, y, z)
NodeLoopsOver(xs, ys, zs) ==
    Concat([k \in 1..Len(zs) |->
      Concat([j \in 1..Len(ys) |->
        [i \in 1..Len(xs) |-> <<xs[i], ys[j], zs[k]>>]])])

\* the three nested node loops for cell sizes dx, dy, dz
NodeLoops(nx, ny, nz, dx, dy, dz) ==
    NodeLoopsOver(AxisNodes(nx, dx), AxisNodes(ny, dy), AxisNodes(nz, dz))

\* MeshGenerator._generate_nodes
_generate_nodes(nx, ny, nz, width, height, depth) ==
    NodeLoops(nx, ny, nz, RDiv(width, R(nx)), RDiv(height, R(ny)), RDiv(depth, R(nz)))

\* mutant: an element is created without a tag
MockElementUntagged(x, y, z) == [center |-> <<x, y, z>>, region |-> ""]

\* MockElement.__init__
MockElement(x, y, z) == [center |-> <<x, y, z>>, region |-> "mech"]

\* (i + 0.5)
PlusHalf(i) == Frac(2 * i + 1, 2)

\* center_x = (i + 0.5) * (10.0 / nx), and likewise center_y, center_z
CenterCoordinate(i, s) == RMul(PlusHalf(i), s)

\* the body of the element loops: the element of cell (i, j, k), counted from 0
ElementAt(i, j, k, sx, sy, sz) ==
    MockElement(CenterCoordinate(i, sx), CenterCoordinate(j, sy), CenterCoordinate(k, sz))

\* the center coordinates the element loops compute along one axis: that of
\* the index i - 1 of range(n) at position i
AxisCenters(n, s) == [i \in 1..n |-> CenterCoordinate(i - 1, s)] \o <<>>

\* the three nested element loops, z outermost, appending MockElement(x, y, z)
ElementLoopsOver(cx, cy, cz) ==
    Concat([k \in 1..Len(cz) |->
      Concat([j \in 1..Len(cy) |->
        [i \in 1..Len(cx) |-> MockElement(cx[i], cy[j], cz[k])]])])

\* the three nested element loops; sx, sy, sz are 10.0 / nx, 8.0 / ny, 6.0 / nz
ElementLoops(nx, ny, nz, sx, sy, sz) ==
    ElementLoopsOver(AxisCenters(nx, sx), AxisCenters(ny, sy), AxisCenters(nz, sz))

\* MeshGenerator._generate_elements: the centers assume a 10 x 8 x 6 domain
_generate_elements(nx, ny, nz) ==
    ElementLoops(nx, ny, nz, RDiv(R(10), R(nx)), RDiv(R(8), R(ny)), RDiv(R(6), R(nz)))

\* MockMesh.calc_barycenter
calc_barycenter(e) == e.center

\* whether create_3d_mesh raises: the three divisions of _generate_nodes
CreateRaises(nx, ny, nz) == DivRaises(nx) \/ DivRaises(ny) \/ DivRaises(nz)

\* create_3d_mesh / MeshGenerator.create_structured_mesh, when it returns
create_3d_mesh(nx, ny, nz, width, height, depth) ==
    [nodes    |-> _generate_nodes(nx, ny, nz, width, height, depth),
     elements |-> _generate_elements(nx, ny, nz),
     bc       |-> <<>>]

-----------------------------------------------------------------------------
(* Mesh file writer: write_ansys_mesh of src/src/utils/mesh_utilities.py.  *)
(* A file content is the sequence of its lines, a line the sequence of its *)
(* whitespace-separated tokens; <<>> is an empty line.                     *)

Pow6 == 1000000

\* n/d rounded to the nearest integer, ties to even (n >= 0, d > 0)
RoundHalfEven(n, d) ==
    LET q == n \div d
        r == n % d
    IN  IF 2 * r > d THEN q + 1
        ELSE IF 2 * r < d THEN q
        ELSE q + (q % 2)

\* six digits with leading zeros
Pad6(f) ==
    IF f < 10 THEN "00000" \o ToString(f)
    ELSE IF f < 100 THEN "0000" \o ToString(f)
    ELSE IF f < 1000 THEN "000" \o ToString(f)
    ELSE IF f < 10000 THEN "00" \o ToString(f)
    ELSE IF f < 100000 THEN "0" \o ToString(f)
    ELSE ToString(f)

\* Python f"{x:.6f}"
Fmt6(x) ==
    LET micro == RoundHalfEven(Abs(x[1]) * Pow6, x[2])
    IN  (IF x[1] < 0 THEN "-" ELSE "")
            \o ToString(micro \div Pow6) \o "." \o Pad6(micro % Pow6)

RECURSIVE SumLen(_)
SumLen(bcs) == IF bcs = <<>> THEN 0 ELSE Len(bcs[1][2]) + SumLen(Tail(bcs))

\* the counts declared by the [Info] block
NumNodesFieldCells(m) == Len(m.elements)
NumNodesField(m) == Len(m.nodes)
Num3DElementsField(m) == Len(m.elements)

InfoBlock(m) ==
    << <<"#", "ANSYS", "Mesh", "File">>,
       <<"#", "Generated", "by", "TV", "Mount", "Optimizer">>,
       <<"#", "Nodes:", ToString(Len(m.nodes))>>,
       <<"#", "Elements:", ToString(Len(m.elements))>>,
       <<"#", "Boundary", "Conditions:", ToString(Len(m.bc))>>,
       <<>>,
       <<"[Info]">>,
       <<"Version", "1">>,
       <<"Dimension", "3">>,
       <<"NumNodes", ToString(NumNodesField(m))>>,
       <<"Num3DElements", ToString(Num3DElementsField(m))>>,
       <<"Num2DElements", "0">>,
       <<"Num1DElements", "0">>,
       <<"NumNodeBC", ToString(SumLen(m.bc))>>,
       <<>>,
       <<"[Nodes]">> >>

NodeLines(m) ==
    [t \in 1..Len(m.nodes) |->
        <<ToString(t), Fmt6(m.nodes[t][1]), Fmt6(m.nodes[t][2]), Fmt6(m.nodes[t][3])>>]

ElementLines(m) ==
    [t \in 1..Len(m.elements) |-> <<ToString(t), "brick", m.elements[t].region>>]

BoundaryLines(m) ==
    [t \in 1..Len(m.bc) |-> <<m.bc[t][1] \o ":", ToString(Len(m.bc[t][2])), "nodes">>]

\* the text write_ansys_mesh(mesh, filename) writes
MeshFileContent(m) ==
    InfoBlock(m) \o NodeLines(m)
        \o << <<>>, <<"[Elements]">> >> \o ElementLines(m)
        \o << <<>>, <<"[BoundaryConditions]">> >> \o BoundaryLines(m)

\* open(path, 'w') raises FileNotFoundError unless the directory of path exists
Parent(path) == SubSeq(path, 1, Len(path) - 1)
OpenRaises(path, ds) == Parent(path) \notin ds

\* with open(path, 'w') as f: f.write(content)
WriteFile(fs, path, content) ==
    {f \in fs : f.path # path} \cup {[path |-> path, content |-> content]}

\* the files after write_ansys_mesh(mesh, filename)
write_ansys_mesh(fs, m, filename) == WriteFile(fs, filename, MeshFileContent(m))

-----------------------------------------------------------------------------
(* Region classifier: TVMountOptimizer._define_regions *)

\* mutant: the chained comparisons with <= for <
InClosed(a, x, b) == RLe(R(a), x) /\ RLe(x, R(b))

\* a < x < b with integer bounds, as the chained comparisons of the code
In(a, x, b) == RBetween(R(a), x, R(b))

\* z_min < z < z_max of the TV mounting layer
InTvLayer(z, geo) ==
    RBetween(RSub(geo.depth, geo.mount_thickness), z, geo.depth)

\* first branch of _define_regions: wall mounting region
IsInWallSolid(x, y, z, geo) ==
    In(4, x, 6) /\ In(0, y, 8) /\ RBetween(R(0), z, geo.wall_thickness)

\* second branch of _define_regions: void regions in the wall mounting area
IsInWallVoid(x, y, z, geo) ==
    /\ (In(0, x, 4) \/ In(6, x, 10))
    /\ In(0, y, 8)
    /\ RBetween(R(0), z, geo.wall_thickness)

\* TVMountOptimizer._is_in_tv_mount_region
_is_in_tv_mount_region(x, y, z, geo) ==
    \/ (In(3, x, 7) /\ In(3, y, 5) /\ InTvLayer(z, geo))
    \/ /\ \/ ((In(1, x, 3) \/ In(7, x, 9)) /\ In(0, y, 8))
          \/ (In(3, x, 7) /\ (In(0, y, 3) \/ In(5, y, 8)))
       /\ InTvLayer(z, geo)

\* TVMountOptimizer._is_in_tv_void_region
_is_in_tv_void_region(x, y, z, geo) ==
    /\ \/ (In(3, x, 7) /\ In(0, y, 3))
       \/ (In(3, x, 7) /\ In(5, y, 8))
       \/ (In(0, x, 1) /\ In(0, y, 8))
       \/ (In(9, x, 10) /\ In(0, y, 8))
    /\ InTvLayer(z, geo)

\* mutant: the default branch writes the name the documentation uses
RegionForOptimizable(x, y, z, geo) ==
    IF IsInWallSolid(x, y, z, geo) THEN "solid"
    ELSE IF IsInWallVoid(x, y, z, geo) THEN "void"
    ELSE IF _is_in_tv_mount_region(x, y, z, geo) THEN "solid"
    ELSE IF _is_in_tv_void_region(x, y, z, geo) THEN "void"
    ELSE "optimizable"

\* the if / elif chain of _define_regions: the tag of a barycenter (x, y, z)
RegionFor(x, y, z, geo) ==
    IF IsInWallSolid(x, y, z, geo) THEN "solid"
    ELSE IF IsInWallVoid(x, y, z, geo) THEN "void"
    ELSE IF _is_in_tv_mount_region(x, y, z, geo) THEN "solid"
    ELSE IF _is_in_tv_void_region(x, y, z, geo) THEN "void"
    ELSE "mech"

\* mutant: an element that already carries a tag is reset and skipped
ClassifyElementClearTagged(e, geo) ==
    IF e.region # "mech" THEN [e EXCEPT !.region = "mech"]
    ELSE [e EXCEPT !.region = RegionFor(calc_barycenter(e)[1], calc_barycenter(e)[2],
                                        calc_barycenter(e)[3], geo)]

\* the body of the loop of _define_regions for one element
ClassifyElement(e, geo) ==
    [e EXCEPT !.region = RegionFor(calc_barycenter(e)[1], calc_barycenter(e)[2],
                                   calc_barycenter(e)[3], geo)]

\* TVMountOptimizer._define_regions: the loop over self.mesh.elements
_define_regions(m, geo) ==
    [m EXCEPT !.elements = [t \in 1..Len(m.elements) |-> ClassifyElement(m.elements[t], geo)]]

-----------------------------------------------------------------------------
(* Boundary node selector: TVMountOptimizer._define_boundary_conditions *)

\* back support (fixed boundary): 4 < x < 6 and 0 < y < 8 and 0 < z < 0.25
InBackSupport(n) ==
    In(4, n[1], 6) /\ In(0, n[2], 8) /\ RBetween(R(0), n[3], Frac(1, 4))

\* z_min < z < self.geometry.depth
InForceBand(n, geo) ==
    RBetween(RSub(geo.depth, geo.mount_thickness), n[3], geo.depth)

\* mutant: the distance test with < for <=
InHoleStrict(n, point, radius) ==
    LET dx == RSub(n[1], point[1])
        dy == RSub(n[2], point[2])
    IN  RLt(RAdd(RMul(dx, dx), RMul(dy, dy)), RMul(radius, radius))

\* (x - h)**2 + (y - k)**2 <= mounting_hole_radius**2
InHole(n, point, radius) ==
    LET dx == RSub(n[1], point[1])
        dy == RSub(n[2], point[2])
    IN  RLe(RAdd(RMul(dx, dx), RMul(dy, dy)), RMul(radius, radius))

\* mutant: ids counted from 1
NodeIdFromOne(t) == t

\* the id enumerate() gives the t-th node of the list: 0 for the first
NodeId(t) == t - 1

\* the ids of the nodes at the positions sel
Ids(sel) == [s \in 1..Len(sel) |-> NodeId(sel[s])]

\* the positions 1 .. len(self.mesh.nodes) the node loop visits, in order
Positions(nodes) == [t \in 1..Len(nodes) |-> t]

\* the ids back_support collects
back_support(nodes) ==
    Ids(SelectSeq(Positions(nodes), LAMBDA t : InBackSupport(nodes[t])))

\* the ids of the nodes the node loop finds in the force region of mounting
\* point j (the z band and the hole test), in node order
ForceNodes(nodes, geo, j) ==
    Ids(SelectSeq(Positions(nodes),
                  LAMBDA t : /\ InForceBand(nodes[t], geo)
                             /\ InHole(nodes[t], geo.mounting_points[j],
                                       geo.mounting_hole_radius)))

\* what the innermost loop (for load_case in self.load_cases) appends to the
\* list force_sets[name][j] for node i: one append per load case of that name
AppendsFor(name, i, lcs) ==
    LET same == SelectSeq(lcs, LAMBDA lc : lc.name = name)
    IN  [t \in 1..Len(same) |-> i]

\* force_sets[name][j] after the node loop; hit are the nodes of ForceNodes for j
force_sets(hit, name, lcs) ==
    Concat([t \in 1..Len(hit) |-> AppendsFor(name, hit[t], lcs)])

\* mutant: the sets of a load case numbered from 0
bc_name_from_zero(lc, j) == lc.name \o "_force_" \o ToString(j - 1)

\* f"{load_case.name}_force_{j+1}", j the 1-based position of the mounting point
bc_name(lc, j) == lc.name \o "_force_" \o ToString(j)

\* the entries appended to self.mesh.bc: back_support, then for every load case
\* and every mounting point the force set; hits[j] are the ids of ForceNodes for j
BoundaryEntries(nodes, hits, lcs) ==
    << <<"back_support", back_support(nodes)>> >>
    \o Concat([t \in 1..Len(lcs) |->
                 [j \in 1..Len(hits) |->
                    <<bc_name(lcs[t], j), force_sets(hits[j], lcs[t].name, lcs)>>]])

\* the node loop runs once: the list of the ids of ForceNodes for every
\* mounting point
ForceNodeLists(nodes, geo) ==
    [j \in 1..Len(geo.mounting_points) |-> <<>> \o ForceNodes(nodes, geo, j)] \o <<>>

\* TVMountOptimizer._define_boundary_conditions
_define_boundary_conditions(m, geo, lcs) ==
    [m EXCEPT !.bc = m.bc \o BoundaryEntries(m.nodes, ForceNodeLists(m.nodes, geo), lcs)]

-----------------------------------------------------------------------------
(* TVMountOptimizer: construction and configuration *)

\* GeometryConfig()
GeometryConfig ==
    [width |-> R(10), height |-> R(8), depth |-> R(6),
     wall_thickness |-> Frac(1, 4), mount_thickness |-> Frac(1, 4),
     mounting_points |-> << <<R(2), R(2)>>, <<R(8), R(2)>>, <<R(2), R(6)>>, <<R(8), R(6)>> >>,
     mounting_hole_radius |-> Frac(1, 5)]

\* MeshConfig().base_resolution
DefaultBaseResolution == 100

\* LoadCase(name, force_magnitude, force_direction, safety_factor, description)
LoadCase(name, magnitude, direction, safety, description) ==
    [name |-> name, force_magnitude |-> magnitude, force_direction |-> direction,
     safety_factor |-> safety, description |-> description]

\* GeometryConfig().tv_weight * 9.81 / 4
QuarterWeight == RDiv(RMul(R(50), Frac(981, 100)), R(4))

Down == <<R(0), R(-1), R(0)>>

\* TVMountOptimizer._setup_default_load_cases
_setup_default_load_cases ==
    << LoadCase("static_tv_weight", QuarterWeight, Down, Frac(5, 2),
                "Static load from TV weight"),
       LoadCase("dynamic_vibration", RMul(QuarterWeight, Frac(1, 5)), Down, Frac(9, 5),
                "Dynamic vibration loads"),
       LoadCase("seismic_horizontal", RMul(QuarterWeight, Frac(2, 5)), <<R(1), R(0), R(0)>>, R(3),
                "Horizontal seismic loads"),
       LoadCase("fatigue_cycling", RMul(QuarterWeight, Frac(1, 10)), Down, R(4),
                "Fatigue loading from TV on/off cycles") >>

\* TVMountOptimizer._setup_default_materials: the keys of the table with the
\* density of each material (the other properties are of the order of 1e9)
_setup_default_materials ==
    [m \in {"steel", "aluminum", "carbon_fiber"} |->
        [density |-> CASE m = "steel" -> 7850 [] m = "aluminum" -> 2700 [] OTHER -> 1600]]

\* OptimizationConfig()
OptimizationConfig ==
    [volume_fraction |-> Frac(1, 10), max_iterations |-> 100,
     convergence_tolerance |-> Frac(1, 1000000), filter_radius |-> Frac(17, 10),
     penalty_parameter |-> R(3)]

\* Path(p).exists()
Exists(path, fs, ds) == path \in ds \/ \E f \in fs : f.path = path

\* TVMountOptimizer._setup_output_directories: mkdir(parents=True, exist_ok=True)
_setup_output_directories(ds, base) ==
    ds \cup {base \o <<"results">>, base \o <<"results", "meshes">>,
             base \o <<"results", "simulations">>, base \o <<"results", "plots">>,
             base \o <<"results", "reports">>}

\* the branch of __init__ that calls _load_config, which reads the file and
\* assigns nothing
LoadsConfig(cf, fs, ds) == cf # None /\ Exists(cf, fs, ds)

\* optimal_nx, optimal_ny, optimal_nz of generate_adaptive_mesh
optimal_nx(geo, base) == Max(base, Trunc(RMul(geo.width, R(20))))
optimal_ny(geo, base) == Trunc(RMul(RDiv(geo.height, geo.width), R(optimal_nx(geo, base))))
optimal_nz(geo, base) == Trunc(RMul(RDiv(geo.depth, geo.width), R(optimal_nx(geo, base))))

\* whether the try block of generate_adaptive_mesh raises: height / width,
\* 2 * width / optimal_nx, or create_3d_mesh
GenerateRaises(geo, base) ==
    \/ DivRaises(geo.width[1])
    \/ DivRaises(optimal_nx(geo, base))
    \/ CreateRaises(optimal_nx(geo, base), optimal_ny(geo, base), optimal_nz(geo, base))

\* the mesh generate_adaptive_mesh stores in self.mesh when nothing raises
AdaptiveMesh(geo, base, lcs) ==
    _define_boundary_conditions(
        _define_regions(
            create_3d_mesh(optimal_nx(geo, base), optimal_ny(geo, base), optimal_nz(geo, base),
                           geo.width, geo.height, geo.depth),
            geo),
        geo, lcs)

-----------------------------------------------------------------------------
(* TVMountOptimizer: problem documents and the optimization run.  A        *)
(* document is the sequence of its lines as in a mesh file; of the fixed   *)
(* text of the template the lines that enclose a substituted value are     *)
(* kept.                                                                   *)

\* f digits wide w, with leading zeros
RECURSIVE Pad(_, _)
Pad(f, w) == IF w = 0 THEN "" ELSE Pad(f \div 10, w - 1) \o ToString(f % 10)

\* the fractional digits f (w wide) without trailing zeros
RECURSIVE FracDigits(_, _)
FracDigits(f, w) == IF w > 1 /\ f % 10 = 0 THEN FracDigits(f \div 10, w - 1) ELSE Pad(f, w)

\* the least k with x * 10^k >= 1 (0 < x < 1)
RECURSIVE Exp10(_, _)
Exp10(x, k) == IF RLe(R(1), x) THEN k ELSE Exp10(RMul(x, R(10)), k + 1)

\* x * 10^k
RECURSIVE Scale10(_, _)
Scale10(x, k) == IF k = 0 THEN x ELSE Scale10(RMul(x, R(10)), k - 1)

\* Python repr of a non-negative float of at most six decimal digits: 3.0,
\* 0.1, 1e-06
Fixed(x) ==
    IF x[2] = 1 THEN ToString(x[1]) \o ".0"
    ELSE ToString(x[1] \div x[2]) \o "."
            \o FracDigits(((x[1] % x[2]) * Pow6) \div x[2], 6)

Mantissa(m) == IF m[2] = 1 THEN ToString(m[1]) ELSE Fixed(m)

Repr(x) ==
    IF x[1] = 0 \/ RLe(Frac(1, 10000), x) THEN Fixed(x)
    ELSE Mantissa(Scale10(x, Exp10(x, 0))) \o "e-" \o Pad(Exp10(x, 0), 2)

\* mutant: the entries counted from 0
force_name_from_zero(lc, i) == lc.name \o "_force_" \o ToString(i - 1)

\* force_name of _generate_single_xml_config
force_name(lc, i) == lc.name \o "_force_" \o ToString(i)

\* one <force> element
ForceEntryLines(lc, i) ==
    << <<"<force", "name", force_name(lc, i)>>,
       <<"<comp", "dof", "x", "value", Fmt6(RMul(lc.force_magnitude, lc.force_direction[1]))>>,
       <<"<comp", "dof", "y", "value", Fmt6(RMul(lc.force_magnitude, lc.force_direction[2]))>>,
       <<"<comp", "dof", "z", "value", Fmt6(RMul(lc.force_magnitude, lc.force_direction[3]))>>,
       <<"</force>">> >>

\* for i in range(len(self.geometry.mounting_points)): one element per point
RECURSIVE ForceLines(_, _, _)
ForceLines(lc, i, n) ==
    IF i > n THEN <<>> ELSE ForceEntryLines(lc, i) \o ForceLines(lc, i + 1, n)

\* the mounting points and the parameters a document is compiled from
DocumentPoints(self) == self.geometry.mounting_points
DocumentParameters(self) == self.optimization_config

\* mutant: the output directory named after the state of the optimizer
hdf5_directory_of_state(self, lc) ==
    "results_" \o lc.name \o (IF self.mesh = None THEN "" ELSE "_meshed")

\* <hdf5 directory="results_{load_case.name}"/>
hdf5_directory(self, lc) == "results_" \o lc.name

\* xml_content of _generate_single_xml_config(self, load_case)
xml_content(self, lc) ==
    << <<"<?xml", "version", "1.0", "encoding", "UTF-8", "?>">>,
       <<"<cfsSimulation>">>,
       <<"<!--", lc.description, "-->">>,
       <<"<!--", "Load", "Case:", lc.name, "-->">>,
       <<"<!--", "Safety", "Factor:", Repr(lc.safety_factor), "-->">>,
       <<"<hdf5", "directory", hdf5_directory(self, lc)>>,
       <<"<bcsAndLoads>">>,
       <<"<fix", "name", "back_support">> >>
    \o ForceLines(lc, 1, Len(DocumentPoints(self)))
    \o << <<"</bcsAndLoads>">>,
          <<"<stopping", "value", Repr(DocumentParameters(self).convergence_tolerance)>>,
          <<"<constraint", "type", "volume", "value",
            Repr(DocumentParameters(self).volume_fraction)>>,
          <<"<optimizer", "maxIterations", ToString(DocumentParameters(self).max_iterations)>>,
          <<"<filter", "value", Repr(DocumentParameters(self).filter_radius)>>,
          <<"<design", "initial", Repr(DocumentParameters(self).volume_fraction)>>,
          <<"<transferFunction", "param", Repr(DocumentParameters(self).penalty_parameter)>>,
          <<"</cfsSimulation>">> >>

\* filepath of _generate_single_xml_config: Path.cwd() / "results" / "simulations" / filename
xml_filename(lc) == "TvSupport_" \o lc.name \o ".xml"
xml_filepath(dir, lc) == dir \o <<"results", "simulations", xml_filename(lc)>>

\* the outcome of a sequence of file writes: the files, whether a write
\* raised, the paths written and the documents compiled
Output(fs) == [files |-> fs, raised |-> FALSE, written |-> {}, compiled |-> <<>>]

\* _generate_single_xml_config(load_case) after the outcome acc
_generate_single_xml_config(acc, ds, dir, self, lc) ==
    IF acc.raised THEN acc
    ELSE IF OpenRaises(xml_filepath(dir, lc), ds) THEN [acc EXCEPT !.raised = TRUE]
    ELSE [files |-> WriteFile(acc.files, xml_filepath(dir, lc), xml_content(self, lc)),
          raised |-> FALSE,
          written |-> acc.written \cup {xml_filepath(dir, lc)},
          compiled |-> Append(acc.compiled,
                              [load_case |-> lc, mounting_points |-> DocumentPoints(self),
                               parameters |-> DocumentParameters(self),
                               text |-> xml_content(self, lc)])]

\* generate_xml_configurations: for load_case in self.load_cases
RECURSIVE XmlLoop(_, _, _, _, _)
XmlLoop(acc, ds, dir, self, t) ==
    IF t > Len(self.load_cases) THEN acc
    ELSE XmlLoop(_generate_single_xml_config(acc, ds, dir, self, self.load_cases[t]),
                 ds, dir, self, t + 1)

generate_xml_configurations_from(acc, ds, dir, self) == XmlLoop(acc, ds, dir, self, 1)

\* _generate_mesh_filename
_generate_mesh_filename(dir, base, t) ==
    dir \o <<"results", "meshes",
             "TvMount_Advanced_nx_" \o ToString(base) \o "_" \o ToString(t) \o ".mesh">>

\* the keys of the results dict of the load cases, in insertion order
RECURSIVE ResultKeys(_, _)
ResultKeys(lcs, t) ==
    IF t > Len(lcs) THEN <<>>
    ELSE IF \E u \in 1..(t - 1) : lcs[u].name = lcs[t].name THEN ResultKeys(lcs, t + 1)
    ELSE <<lcs[t].name>> \o ResultKeys(lcs, t + 1)

\* results[load_case.name] = case_results: the entry of the last load case of the name
LastOf(lcs, name) ==
    lcs[CHOOSE t \in 1..Len(lcs) :
            lcs[t].name = name /\ \A u \in (t + 1)..Len(lcs) : lcs[u].name # name]

\* self.results of a run.  The values drawn from the random number generator
\* and the duration of the run are kept as the expressions that compute them.
RunResults(self, material, meshpath) ==
    [load_cases |-> [t \in 1..Len(ResultKeys(self.load_cases, 1)) |->
                        [name |-> ResultKeys(self.load_cases, 1)[t],
                         compliance |-> "np.random.uniform(1e-6, 1e-4)",
                         max_stress |-> "np.random.uniform(1e6, 50e6)",
                         max_displacement |-> "np.random.uniform(1e-6, 1e-3)",
                         volume_fraction |-> self.optimization_config.volume_fraction,
                         safety_factor |->
                             LastOf(self.load_cases, ResultKeys(self.load_cases, 1)[t]).safety_factor,
                         converged |-> TRUE]],
     material |-> material,
     optimization_time |-> "time.time() - start_time",
     mesh_file |-> meshpath,
     convergence |-> TRUE]

\* _generate_optimization_report: the file and the lines of the report that do
\* not depend on the random number generator or on the clock
report_filepath(dir, t) ==
    dir \o <<"results", "reports", "optimization_report_" \o ToString(t) \o ".md">>

report_content(self, res) ==
    << <<"#", "TV", "Wall", "Mount", "Optimization", "Report">>,
       <<"**Material**:", res.material>>,
       <<"-", "Dimensions:", Repr(self.geometry.width), "x", Repr(self.geometry.height), "x",
         Repr(self.geometry.depth), "m">>,
       <<"-", "Mounting", "Points:", ToString(Len(self.geometry.mounting_points))>>,
       <<"-", "Wall", "Thickness:", Repr(self.geometry.wall_thickness), "m">> >>
    \o [t \in 1..Len(res.load_cases) |->
            <<"###", res.load_cases[t].name, "Safety", "Factor:",
              Repr(res.load_cases[t].safety_factor)>>]
    \o << <<"-", "Volume", "Fraction:", Repr(self.optimization_config.volume_fraction)>>,
          <<"-", "Max", "Iterations:", ToString(self.optimization_config.max_iterations)>>,
          <<"-", "Filter", "Radius:", Repr(self.optimization_config.filter_radius)>>,
          <<"-", "Penalty", "Parameter:", Repr(self.optimization_config.penalty_parameter)>> >>

\* the part of run_optimization after a successful generate_adaptive_mesh:
\* write_ansys_mesh, generate_xml_configurations, self.results and the report.
\* An exception of any step ends the run with the error result.
\* mutant: the grid written before classification and selection
MeshToWriteGrid(self) ==
    create_3d_mesh(optimal_nx(self.geometry, self.base_resolution),
                   optimal_ny(self.geometry, self.base_resolution),
                   optimal_nz(self.geometry, self.base_resolution),
                   self.geometry.width, self.geometry.height, self.geometry.depth)

\* write_ansys_mesh(self.mesh, mesh_filename): the mesh generate_adaptive_mesh stored
MeshToWrite(self) == self.mesh[1]

Serialized(fs, ds, dir, self, meshpath) ==
    IF OpenRaises(meshpath, ds) THEN [Output(fs) EXCEPT !.raised = TRUE]
    ELSE generate_xml_configurations_from(
            [Output(write_ansys_mesh(fs, MeshToWrite(self), meshpath))
                EXCEPT !.written = {meshpath}],
            ds, dir, self)

Reported(out, ds, dir, self, res, t) ==
    IF out.raised THEN out
    ELSE IF OpenRaises(report_filepath(dir, t), ds) THEN [out EXCEPT !.raised = TRUE]
    ELSE [out EXCEPT !.files = WriteFile(out.files, report_filepath(dir, t),
                                         report_content(self, res)),
                     !.written = out.written \cup {report_filepath(dir, t)}]

-----------------------------------------------------------------------------
(* The stand-alone script src/TvSupport.py *)

WIDTH == R(10)
HEIGHT == R(8)
DEPTH == R(6)
NX == 50
NY == Trunc(RMul(RDiv(HEIGHT, WIDTH), R(NX)))
NZ == Trunc(RMul(RDiv(DEPTH, WIDTH), R(NX)))
WALL_PLATE_Z_MIN == R(0)
WALL_PLATE_Z_MAX == Frac(1, 4)
TV_SURFACE_Z_MIN == Frac(23, 4)
TV_SURFACE_Z_MAX == R(6)

is_in_wall_plate(x, y, z) ==
    In(4, x, 6) /\ In(0, y, 8) /\ RBetween(WALL_PLATE_Z_MIN, z, WALL_PLATE_Z_MAX)

is_in_wall_void(x, y, z) ==
    /\ (In(0, x, 4) \/ In(6, x, 10))
    /\ In(0, y, 8)
    /\ RBetween(WALL_PLATE_Z_MIN, z, WALL_PLATE_Z_MAX)

\* corner supports, side supports or the center mounting area
is_in_tv_mounting_solid(x, y, z) ==
    IF ~RBetween(TV_SURFACE_Z_MIN, z, TV_SURFACE_Z_MAX) THEN FALSE
    ELSE \/ ((In(1, x, 3) \/ In(7, x, 9)) /\ In(0, y, 8))
         \/ (In(3, x, 7) /\ (In(0, y, 3) \/ In(5, y, 8)))
         \/ (In(3, x, 7) /\ In(3, y, 5))

\* top and bottom cutouts or the left and right edge voids
is_in_tv_mounting_void(x, y, z) ==
    IF ~RBetween(TV_SURFACE_Z_MIN, z, TV_SURFACE_Z_MAX) THEN FALSE
    ELSE \/ (In(3, x, 7) /\ (In(0, y, 3) \/ In(5, y, 8)))
         \/ ((In(0, x, 1) \/ In(9, x, 10)) /\ In(0, y, 8))

\* the tag the if / elif of the assignment loop leaves on an element tagged
\* region whose barycenter is (x, y, z): no branch means no assignment
ScriptRegionFor(x, y, z, region) ==
    IF is_in_wall_plate(x, y, z) \/ is_in_tv_mounting_solid(x, y, z) THEN "solid"
    ELSE IF is_in_wall_void(x, y, z) \/ is_in_tv_mounting_void(x, y, z) THEN "void"
    ELSE region

\* the body of the assignment loop for one element
AssignRegion(e) ==
    [e EXCEPT !.region = ScriptRegionFor(calc_barycenter(e)[1], calc_barycenter(e)[2],
                                         calc_barycenter(e)[3], e.region)]

\* the element of cell (i, j, k) of mesh = create_3d_mesh(NX, NY, NZ, ...)
ScriptElement(i, j, k) ==
    ElementAt(i, j, k, RDiv(R(10), R(NX)), RDiv(R(8), R(NY)), RDiv(R(6), R(NZ)))

-----------------------------------------------------------------------------
(* Inputs of the direct calls of create_3d_mesh (tests/test_suite.py) *)

MaxCount == 3

\* element counts passed to create_3d_mesh: valid ones, zero and negative ones
Counts == {-5, -1, 0, 5} \cup (1..MaxCount)

\* (width, height, depth) passed to create_3d_mesh
DomainSizes == {<<R(10), R(8), R(6)>>, <<R(6), R(6), R(6)>>,
                <<R(0), R(8), R(6)>>, <<R(-10), R(8), R(6)>>}

\* the directory the process starts in and a temporary directory of the caller
\* (tempfile.mkdtemp())
Project == <<"project">>
Temp == <<"tmp">>

\* the file the caller of write_ansys_mesh names
TestMeshFile == Temp \o <<"test_mesh.mesh">>

-----------------------------------------------------------------------------
(* Inputs of the optimizer's callers *)

\* a GeometryConfig of a small slab: width 1/8, depth 1/2, one mounting point
\* on the node (1/16, 1/16) with a hole radius of one node spacing
Slab(height, wall, mount) ==
    [width |-> Frac(1, 8), height |-> height, depth |-> Frac(1, 2),
     wall_thickness |-> wall, mount_thickness |-> mount,
     mounting_points |-> << <<Frac(1, 16), Frac(1, 16)>> >>,
     mounting_hole_radius |-> Frac(1, 16)]

\* the GeometryConfig objects a caller assigns to optimizer.geometry
Geometries ==
    { \* wall layer (0, 1/2) covering the TV layer (1/4, 1/2)
      Slab(Frac(1, 4), Frac(1, 2), Frac(1, 4)),
      \* wall layer (0, 1/4) and TV layer (1/4, 1/2) apart, the default thicknesses
      Slab(Frac(1, 4), Frac(1, 4), Frac(1, 4)),
      \* the same with a height of a quarter of the width
      Slab(Frac(1, 32), Frac(1, 4), Frac(1, 4)),
      \* wall layer (0, 1/2) overlapping the TV layer (1/8, 5/8) on a 4 x 2 x 11
      \* mesh, with barycenters at x = 3.75 and x = 6.25
      [Slab(Frac(9, 64), Frac(1, 2), Frac(1, 2)) EXCEPT !.width = Frac(7, 32), !.depth = Frac(5, 8)],
      \* a wide thin plate reaching the back support box 4 < x < 6
      [GeometryConfig EXCEPT !.width = R(5), !.height = Frac(1, 16), !.depth = Frac(1, 16),
                              !.mounting_points = << <<Frac(9, 2), R(0)>>, <<R(2), R(2)>> >>,
                              !.mounting_hole_radius = Frac(1, 20)] }

\* values a caller assigns to optimizer.mesh_config.base_resolution
BaseResolutions == {2, 5}

\* names of the load cases a caller appends to optimizer.load_cases
AppendedNames == {"static_tv_weight", "thermal_expansion"}

\* the LoadCase objects of these names: a second load case of the name of a
\* default one, with the default direction and safety factor, and one whose
\* force components have more than six decimal places
AppendedLoadCase(n) ==
    IF n = "static_tv_weight"
    THEN LoadCase(n, R(100), Down, R(2), "")
    ELSE LoadCase(n, Frac(1, 128), <<R(1), R(0), Frac(-1, 2)>>, Frac(3, 2), "Thermal expansion")

\* the config_file arguments of the constructor: None, a path that does not
\* exist and the path of an existing YAML file
ConfigYaml == Project \o <<"config.yaml">>
ConfigYamlContent == << <<"tv_weight:", "75.0">> >>
ConfigFiles == {None, Project \o <<"nonexistent_config.yaml">>, ConfigYaml}

\* the values time.time() returns to the runs: every run starts one second
\* after the run before it, the first one second after the start of the process
T0 == 1700000000
Times == {T0 + 1, T0 + 2}

\* at most this many load cases are appended
MaxAppended == 1

\* generate_adaptive_mesh is explored for meshes of at most this many elements
MaxCells == 200

-----------------------------------------------------------------------------
(* State machine *)

Init ==
    /\ scenario = "idle"
    /\ created = None
    /\ geometry = None
    /\ base_resolution = 0
    /\ load_cases = <<>>
    /\ mesh = None
    /\ generated = "none"
    /\ built_from = None
    /\ regenerated = FALSE
    /\ script_element = None
    /\ files = {[path |-> ConfigYaml, content |-> ConfigYamlContent]}
    /\ dirs = {Project, Temp}
    /\ cwd = Project
    /\ material_properties = <<>>
    /\ config_file = None
    /\ results = <<>>
    /\ now = T0
    /\ last_call = None
    /\ task_mesh = None
    /\ classified = 0
    /\ selected = 0
    /\ back_list = <<>>
    /\ force_lists = <<>>
    /\ appended = FALSE
    /\ mixed = FALSE

\* a caller (a test, a script) calls create_3d_mesh(nx, ny, nz, width, height, depth)
CallCreate3dMesh ==
    /\ UNCHANGED tasks
    /\ scenario = "idle"
    /\ \E nx \in Counts, ny \in Counts, nz \in Counts, size \in DomainSizes :
          created' = << [nx |-> nx, ny |-> ny, nz |-> nz,
                         width |-> size[1], height |-> size[2], depth |-> size[3],
                         raised |-> CreateRaises(nx, ny, nz),
                         mesh |-> IF CreateRaises(nx, ny, nz) THEN None
                                  ELSE <<create_3d_mesh(nx, ny, nz,
                                                        size[1], size[2], size[3])>>] >>
    /\ scenario' = "mesh_utilities"
    /\ UNCHANGED <<geometry, base_resolution, load_cases, mesh, generated, built_from,
                   regenerated, script_element>>
    /\ UNCHANGED <<disk, settings, pipeline>>

\* the caller writes the mesh it created: write_ansys_mesh(mesh, filename).
\* Followed for domains of non-negative size: on a negative size the code
\* computes the IEEE value -0.0 for the first coordinate, which an exact
\* rational does not distinguish from 0.0 and Fmt6 would print unsigned.
CallWriteAnsysMesh ==
    /\ UNCHANGED tasks
    /\ scenario = "mesh_utilities"
    /\ created[1].mesh # None
    /\ created[1].width[1] >= 0 /\ created[1].height[1] >= 0 /\ created[1].depth[1] >= 0
    /\ ~Exists(TestMeshFile, files, dirs)
    /\ ~OpenRaises(TestMeshFile, dirs)
    /\ files' = write_ansys_mesh(files, created[1].mesh[1], TestMeshFile)
    /\ UNCHANGED <<scenario, created, geometry, base_resolution, load_cases, mesh, generated,
                   built_from, regenerated, script_element, dirs, cwd, settings, pipeline>>

\* python3 TvSupport.py, followed on the element of one cell (i, j, k) of its mesh
RunTvSupport ==
    /\ UNCHANGED tasks
    /\ scenario = "idle"
    /\ \E i \in 0..(NX - 1), j \in 0..(NY - 1), k \in 0..(NZ - 1) :
          script_element' = <<AssignRegion(ScriptElement(i, j, k))>>
    /\ scenario' = "TvSupport"
    /\ UNCHANGED <<created, geometry, base_resolution, load_cases, mesh, generated,
                   built_from, regenerated>>
    /\ UNCHANGED <<disk, settings, pipeline>>

\* TVMountOptimizer(config_file).  A caller that passed a configuration file
\* is followed up to the end of the constructor.
TVMountOptimizer ==
    /\ UNCHANGED tasks
    /\ scenario = "idle"
    /\ \E cf \in ConfigFiles :
          /\ config_file' = cf
          /\ scenario' = IF cf = None THEN "optimizer" ELSE "configured"
          /\ IF LoadsConfig(cf, files, dirs)
             THEN load_cases' = <<>> /\ material_properties' = <<>>
             ELSE /\ load_cases' = _setup_default_load_cases
                  /\ material_properties' = _setup_default_materials
    /\ geometry' = <<GeometryConfig>>
    /\ base_resolution' = DefaultBaseResolution
    /\ mesh' = None
    /\ results' = <<>>
    /\ dirs' = _setup_output_directories(dirs, cwd)
    /\ UNCHANGED <<created, generated, built_from, regenerated, script_element, files, cwd,
                   now, last_call>>

\* optimizer.geometry = GeometryConfig(...)
SetGeometry ==
    /\ UNCHANGED tasks
    /\ scenario = "optimizer"
    /\ \E g \in Geometries : geometry' = <<g>>
    /\ UNCHANGED <<scenario, created, base_resolution, load_cases, mesh, generated,
                   built_from, regenerated, script_element>>
    /\ UNCHANGED <<disk, settings, pipeline>>

\* optimizer.mesh_config.base_resolution = b
SetBaseResolution ==
    /\ UNCHANGED tasks
    /\ scenario = "optimizer"
    /\ \E b \in BaseResolutions : base_resolution' = b
    /\ UNCHANGED <<scenario, created, geometry, load_cases, mesh, generated,
                   built_from, regenerated, script_element>>
    /\ UNCHANGED <<disk, settings, pipeline>>

\* optimizer.load_cases.append(LoadCase(name=...))
AppendLoadCase ==
    /\ UNCHANGED tasks
    /\ scenario = "optimizer"
    /\ Len(load_cases) < Len(_setup_default_load_cases) + MaxAppended
    /\ \E n \in AppendedNames : load_cases' = Append(load_cases, AppendedLoadCase(n))
    /\ UNCHANGED <<scenario, created, geometry, base_resolution, mesh, generated,
                   built_from, regenerated, script_element>>
    /\ UNCHANGED <<disk, settings, pipeline>>

\* the number of elements of the mesh a generate_adaptive_mesh call would build
Cells(geo, base) ==
    Max(optimal_nx(geo, base), 0) * Max(optimal_ny(geo, base), 0) * Max(optimal_nz(geo, base), 0)

\* the configuration generate_adaptive_mesh reads
Configuration ==
    [geometry |-> geometry[1], base_resolution |-> base_resolution, load_cases |-> load_cases]

\* optimizer.generate_adaptive_mesh()
generate_adaptive_mesh ==
    /\ UNCHANGED tasks
    /\ scenario = "optimizer"
    /\ GenerateRaises(geometry[1], base_resolution)
          \/ Cells(geometry[1], base_resolution) <= MaxCells
    /\ IF GenerateRaises(geometry[1], base_resolution)
       THEN /\ generated' = "False"
            /\ UNCHANGED <<mesh, built_from, regenerated>>
       ELSE /\ generated' = "True"
            /\ mesh' = <<AdaptiveMesh(geometry[1], base_resolution, load_cases)>>
            /\ built_from' = <<Configuration>>
            /\ regenerated' = (regenerated \/ (mesh # None /\ built_from # <<Configuration>>))
    /\ UNCHANGED <<scenario, created, geometry, base_resolution, load_cases, script_element>>
    /\ UNCHANGED <<disk, settings, pipeline>>

\* the optimizer object as the methods read it, with m as self.mesh
Self(m) ==
    [geometry |-> geometry[1], base_resolution |-> base_resolution,
     optimization_config |-> OptimizationConfig, load_cases |-> load_cases,
     material_properties |-> material_properties, mesh |-> m, results |-> results]

\* the calls that produce files are followed on an optimizer whose
\* configuration is complete and whose generate_adaptive_mesh has not been
\* called by the caller itself
InRunPhase == scenario = "pipeline" \/ (scenario = "optimizer" /\ generated = "none")

\* os.chdir(self.temp_dir): the caller leaves the directory the optimizer
\* was constructed in
Chdir ==
    /\ UNCHANGED tasks
    /\ InRunPhase
    /\ cwd = Project
    /\ cwd' = Temp
    /\ scenario' = "pipeline"
    /\ UNCHANGED <<created, geometry, base_resolution, load_cases, mesh, generated, built_from,
                   regenerated, script_element, files, dirs, settings, pipeline>>

\* shutil.rmtree of the reports directory: the caller clears the reports of
\* earlier runs
RemoveReports ==
    /\ UNCHANGED tasks
    /\ InRunPhase
    /\ (cwd \o <<"results", "reports">>) \in dirs
    /\ dirs' = dirs \ {cwd \o <<"results", "reports">>}
    /\ files' = {f \in files : Parent(f.path) # cwd \o <<"results", "reports">>}
    /\ scenario' = "pipeline"
    /\ UNCHANGED <<created, geometry, base_resolution, load_cases, mesh, generated, built_from,
                   regenerated, script_element, cwd, settings, pipeline>>

\* what a call leaves behind: its outcome ("returned", "raised" to the caller,
\* or "error" for the error result of run_optimization), its output and the
\* value self.results had when it was called
Call(op, outcome, error, out) ==
    << [op |-> op, cwd |-> cwd, outcome |-> outcome, error |-> error,
        written |-> out.written, compiled |-> out.compiled, results_before |-> results] >>

GenerateXmlOutcome(out) ==
    /\ files' = out.files
    /\ last_call' = Call("generate_xml_configurations",
                         IF out.raised THEN "raised" ELSE "returned",
                         IF out.raised THEN "FileNotFoundError" ELSE "", out)

\* optimizer.generate_xml_configurations()
generate_xml_configurations ==
    /\ UNCHANGED tasks
    /\ InRunPhase
    /\ GenerateXmlOutcome(generate_xml_configurations_from(Output(files), dirs, cwd, Self(mesh)))
    /\ scenario' = "pipeline"
    /\ UNCHANGED <<created, geometry, base_resolution, load_cases, mesh, generated, built_from,
                   regenerated, script_element, dirs, cwd, settings, results, now>>

\* the material_type argument of run_optimization: its default
Materials == {"steel"}

\* run_optimization after generate_adaptive_mesh returned True with the mesh of
\* self: ser is the outcome up to generate_xml_configurations, res the results
\* dict, out the outcome of the whole try block
RunOutcome(self, ser, res, out) ==
    /\ mesh' = self.mesh
    /\ generated' = "True"
    /\ built_from' = <<Configuration>>
    /\ regenerated' = (regenerated \/ (mesh # None /\ built_from # <<Configuration>>))
    /\ results' = IF ser.raised THEN results ELSE res
    /\ files' = out.files
    /\ last_call' = Call("run_optimization",
                         IF out.raised THEN "error" ELSE "returned",
                         IF out.raised THEN "FileNotFoundError" ELSE "", out)

RunSerialized(self, ser, res, t) ==
    RunOutcome(self, ser, res, Reported(ser, dirs, cwd, self, res, t))

RunWithMesh(self, meshpath, material, t) ==
    RunSerialized(self, Serialized(files, dirs, cwd, self, meshpath),
                  RunResults(self, material, meshpath), t)

\* optimizer.run_optimization(material_type) at the time t
run_optimization ==
    /\ UNCHANGED tasks
    /\ InRunPhase
    /\ GenerateRaises(geometry[1], base_resolution)
          \/ Cells(geometry[1], base_resolution) <= MaxCells
    /\ \E t \in Times, material \in Materials :
          /\ t = now + 1
          /\ now' = t
          /\ IF GenerateRaises(geometry[1], base_resolution)
             THEN /\ generated' = "False"
                  /\ last_call' = Call("run_optimization", "error", "Mesh generation failed",
                                       Output(files))
                  /\ UNCHANGED <<mesh, built_from, regenerated, results, files>>
             ELSE RunWithMesh(Self(<<AdaptiveMesh(geometry[1], base_resolution, load_cases)>>),
                              _generate_mesh_filename(cwd, base_resolution, t), material, t)
    /\ scenario' = "pipeline"
    /\ UNCHANGED <<created, geometry, base_resolution, load_cases, script_element, dirs, cwd,
                   settings>>

Next ==
    \/ CallCreate3dMesh
    \/ CallWriteAnsysMesh
    \/ RunTvSupport
    \/ TVMountOptimizer
    \/ SetGeometry
    \/ SetBaseResolution
    \/ AppendLoadCase
    \/ generate_adaptive_mesh
    \/ Chdir
    \/ RemoveReports
    \/ generate_xml_configurations
    \/ run_optimization

Spec == Init /\ [][Next]_vars

-----------------------------------------------------------------------------
(* Interleaved execution of the two loops of generate_adaptive_mesh: after *)
(* create_3d_mesh the loop of _define_regions and the loop of              *)
(* _define_boundary_conditions take their steps in any order.              *)

\* the configurations the interleaved execution is followed for
InterleavedGeometries ==
    {Slab(Frac(1, 4), Frac(1, 2), Frac(1, 4)), Slab(Frac(1, 4), Frac(1, 4), Frac(1, 4))}

InterleavedLoadCases ==
    {_setup_default_load_cases,
     Append(_setup_default_load_cases, AppendedLoadCase("static_tv_weight"))}

\* force_sets[load_case.name] = [[] for _ in self.geometry.mounting_points]
EmptyForceSets(geo, lcs) ==
    [name \in {lcs[t].name : t \in 1..Len(lcs)} |->
        [j \in 1..Len(geo.mounting_points) |-> <<>>]]

InitInterleaved ==
    /\ scenario = "interleaved"
    /\ created = None
    /\ \E g \in InterleavedGeometries : geometry = <<g>>
    /\ base_resolution \in BaseResolutions
    /\ ~GenerateRaises(geometry[1], base_resolution)
    /\ Cells(geometry[1], base_resolution) <= MaxCells
    /\ load_cases \in InterleavedLoadCases
    /\ mesh = None
    /\ generated = "none"
    /\ built_from = None
    /\ regenerated = FALSE
    /\ script_element = None
    /\ files = {}
    /\ dirs = {Project, Temp}
    /\ cwd = Project
    /\ material_properties = _setup_default_materials
    /\ config_file = None
    /\ results = <<>>
    /\ now = T0
    /\ last_call = None
    /\ task_mesh = <<create_3d_mesh(optimal_nx(geometry[1], base_resolution),
                                    optimal_ny(geometry[1], base_resolution),
                                    optimal_nz(geometry[1], base_resolution),
                                    geometry[1].width, geometry[1].height, geometry[1].depth)>>
    /\ classified = 0
    /\ selected = 0
    /\ back_list = <<>>
    /\ force_lists = EmptyForceSets(geometry[1], load_cases)
    /\ appended = FALSE
    /\ mixed = FALSE

\* mutant: the classification of an element empties self.mesh.bc
RegionStepClearingSets(m, t, geo) ==
    [m EXCEPT !.elements[t] = ClassifyElement(@, geo), !.bc = <<>>]

\* one pass of the loop of _define_regions: element t of self.mesh
RegionStep(m, t, geo) == [m EXCEPT !.elements[t] = ClassifyElement(@, geo)]

\* one pass of the node loop for the node n at position t: back_support
BackStep(back, t, n) == IF InBackSupport(n) THEN Append(back, NodeId(t)) ELSE back

\* one pass of the node loop for the node n at position t: force_sets
ForceStep(force, t, n, geo, lcs) ==
    IF ~InForceBand(n, geo) THEN force
    ELSE [name \in DOMAIN force |->
            [j \in 1..Len(geo.mounting_points) |->
                IF InHole(n, geo.mounting_points[j], geo.mounting_hole_radius)
                THEN force[name][j] \o AppendsFor(name, NodeId(t), lcs)
                ELSE force[name][j]]]

\* the entries appended to self.mesh.bc after the node loop
AppendedEntries(back, force, geo, lcs) ==
    << <<"back_support", back>> >>
    \o Concat([t \in 1..Len(lcs) |->
                 [j \in 1..Len(geo.mounting_points) |->
                    <<bc_name(lcs[t], j), force[lcs[t].name][j]>>]])

ClassifyNextElement ==
    /\ scenario = "interleaved"
    /\ classified < Len(task_mesh[1].elements)
    /\ task_mesh' = <<RegionStep(task_mesh[1], classified + 1, geometry[1])>>
    /\ classified' = classified + 1
    /\ mixed' = (mixed \/ (0 < selected /\ selected < Len(task_mesh[1].nodes)))
    /\ UNCHANGED <<scenario, created, geometry, base_resolution, load_cases, mesh, generated,
                   built_from, regenerated, script_element, disk, settings, pipeline,
                   selected, back_list, force_lists, appended>>

SelectNextNode ==
    /\ scenario = "interleaved"
    /\ selected < Len(task_mesh[1].nodes)
    /\ back_list' = BackStep(back_list, selected + 1, task_mesh[1].nodes[selected + 1])
    /\ force_lists' = ForceStep(force_lists, selected + 1, task_mesh[1].nodes[selected + 1],
                                geometry[1], load_cases)
    /\ selected' = selected + 1
    /\ UNCHANGED <<scenario, created, geometry, base_resolution, load_cases, mesh, generated,
                   built_from, regenerated, script_element, disk, settings, pipeline,
                   task_mesh, classified, appended, mixed>>

AppendBoundaryConditions ==
    /\ scenario = "interleaved"
    /\ selected = Len(task_mesh[1].nodes)
    /\ ~appended
    /\ task_mesh' = <<[task_mesh[1] EXCEPT !.bc = @ \o AppendedEntries(back_list, force_lists,
                                                                      geometry[1], load_cases)]>>
    /\ appended' = TRUE
    /\ UNCHANGED <<scenario, created, geometry, base_resolution, load_cases, mesh, generated,
                   built_from, regenerated, script_element, disk, settings, pipeline,
                   classified, selected, back_list, force_lists, mixed>>

NextInterleaved ==
    \/ ClassifyNextElement
    \/ SelectNextNode
    \/ AppendBoundaryConditions

SpecInterleaved == InitInterleaved /\ [][NextInterleaved]_vars

-----------------------------------------------------------------------------
(* Claims *)

\* the elements and the node sets of a sequence, as sets
Range(seq) == {seq[t] : t \in 1..Len(seq)}

Positive(r) == r[1] > 0

\* C1: for nx, ny, nz >= 1 and a positive domain size create_3d_mesh returns a
\* mesh of exactly (nx+1)(ny+1)(nz+1) nodes and nx*ny*nz elements.
C1_MeshCounts ==
    \A c \in Range(created) :
        (c.nx >= 1 /\ c.ny >= 1 /\ c.nz >= 1
            /\ Positive(c.width) /\ Positive(c.height) /\ Positive(c.depth))
        => /\ ~c.raised
           /\ c.mesh # None
           /\ Len(c.mesh[1].nodes) = (c.nx + 1) * (c.ny + 1) * (c.nz + 1)
           /\ Len(c.mesh[1].elements) = c.nx * c.ny * c.nz

\* a call with three different valid counts returned its mesh
C1_Witness ==
    \E c \in Range(created) :
        /\ c.nx = 3 /\ c.ny = 2 /\ c.nz = 1 /\ c.width = R(10)
        /\ c.mesh # None
        /\ Len(c.mesh[1].nodes) = 24
        /\ Len(c.mesh[1].elements) = 6

\* C2 (as claimed): create_3d_mesh raises and returns no mesh whenever one of
\* nx, ny, nz is <= 0, zero and negative counts alike.
C2_NonPositiveCountRaises ==
    \A c \in Range(created) :
        (c.nx <= 0 \/ c.ny <= 0 \/ c.nz <= 0) => (c.raised /\ c.mesh = None)

Tags == {"solid", "void", "mech"}

\* the geometry and the load cases self.mesh was classified with
Geo == built_from[1].geometry
Lcs == built_from[1].load_cases

\* C3: after region classification (_define_regions, or the assignment loop of
\* TvSupport.py) every element carries one tag, and it is solid, void or mech.
C3_RegionTags ==
    /\ \A m \in Range(mesh) :
          \A t \in 1..Len(m.elements) : m.elements[t].region \in Tags
    /\ \A e \in Range(script_element) : e.region \in Tags

\* a classified optimizer mesh in which each of the three tags occurs
C3_Witness ==
    \E m \in Range(mesh) :
        \A tag \in Tags : \E t \in 1..Len(m.elements) : m.elements[t].region = tag

\* C4 (as claimed): an element whose barycenter satisfies a solid predicate
\* (wall plate or TV surface) is tagged solid, whatever void predicate it also
\* satisfies, for every geometry configuration.
C4_SolidFirst ==
    /\ \A m \in Range(mesh) :
          \A t \in 1..Len(m.elements) :
              (\/ IsInWallSolid(m.elements[t].center[1], m.elements[t].center[2],
                                m.elements[t].center[3], Geo)
               \/ _is_in_tv_mount_region(m.elements[t].center[1], m.elements[t].center[2],
                                    m.elements[t].center[3], Geo))
              => m.elements[t].region = "solid"
    /\ \A e \in Range(script_element) :
          (\/ is_in_wall_plate(e.center[1], e.center[2], e.center[3])
           \/ is_in_tv_mounting_solid(e.center[1], e.center[2], e.center[3]))
          => e.region = "solid"

\* the boxes the classifier tests, as open intervals on the three axes
Box(tag, xlo, xhi, ylo, yhi, zlo, zhi) ==
    [tag |-> tag, lo |-> <<R(xlo), R(ylo), zlo>>, hi |-> <<R(xhi), R(yhi), zhi>>]

WallBoxes(zlo, zhi) ==
    { Box("solid", 4, 6, 0, 8, zlo, zhi),
      Box("void", 0, 4, 0, 8, zlo, zhi), Box("void", 6, 10, 0, 8, zlo, zhi) }

TvBoxes(zlo, zhi) ==
    { Box("solid", 3, 7, 3, 5, zlo, zhi),
      Box("solid", 1, 3, 0, 8, zlo, zhi), Box("solid", 7, 9, 0, 8, zlo, zhi),
      Box("solid", 3, 7, 0, 3, zlo, zhi), Box("solid", 3, 7, 5, 8, zlo, zhi),
      Box("void", 3, 7, 0, 3, zlo, zhi), Box("void", 3, 7, 5, 8, zlo, zhi),
      Box("void", 0, 1, 0, 8, zlo, zhi), Box("void", 9, 10, 0, 8, zlo, zhi) }

Boxes(geo) ==
    WallBoxes(R(0), geo.wall_thickness)
        \cup TvBoxes(RSub(geo.depth, geo.mount_thickness), geo.depth)

\* c lies strictly inside box b
Inside(c, b) == \A a \in 1..3 : RLt(b.lo[a], c[a]) /\ RLt(c[a], b.hi[a])

\* a coordinate of c equals a bound of an interval of some box
OnBound(c, boxes) == \E b \in boxes : \E a \in 1..3 : c[a] = b.lo[a] \/ c[a] = b.hi[a]

\* C5 (as claimed): an element whose barycenter has a coordinate equal to a
\* bound of a predicate interval ends with the mech tag.
C5_BoundIsMech ==
    \A m \in Range(mesh) :
        \A t \in 1..Len(m.elements) :
            OnBound(m.elements[t].center, Boxes(Geo)) => m.elements[t].region = "mech"

\* the elements of m with a barycenter on a bound of the boxes are tagged mech
\* exactly when the barycenter lies strictly inside no box, and otherwise with
\* the tag of a box that strictly contains the barycenter
BoundIsOutside(m, boxes) ==
    \A t \in 1..Len(m.elements) :
        OnBound(m.elements[t].center, boxes) =>
            /\ (m.elements[t].region = "mech")
                  <=> (\A b \in boxes : ~Inside(m.elements[t].center, b))
            /\ m.elements[t].region # "mech" =>
                  \E b \in boxes : /\ Inside(m.elements[t].center, b)
                                   /\ b.tag = m.elements[t].region

\* C5 (amended): the box tests are strict, so an element whose barycenter has a
\* coordinate equal to a bound of a predicate interval is tagged mech exactly
\* when the barycenter lies strictly inside no box; otherwise it takes the tag
\* of a box that strictly contains the barycenter.
C5_BoundIsOutside == \A m \in Range(mesh) : BoundIsOutside(m, Boxes(Geo))

\* barycenters with x = 3 and with x = 1 in the TV layer alone, both tagged mech
C5_Witness ==
    \E m \in Range(mesh) :
        \A x \in {1, 3} :
            \E t \in 1..Len(m.elements) :
                /\ m.elements[t].center[1] = R(x)
                /\ InTvLayer(m.elements[t].center[3], Geo)
                /\ ~RLt(m.elements[t].center[3], Geo.wall_thickness)
                /\ m.elements[t].region = "mech"

\* C6: a second classification pass with the same geometry leaves every tag
\* as the first pass set it.
C6_Idempotent ==
    /\ \A m \in Range(mesh) : _define_regions(m, Geo).elements = m.elements
    /\ \A e \in Range(script_element) : AssignRegion(e) = e

\* a classified mesh with solid and void elements which a second pass keeps
C6_Witness ==
    \E m \in Range(mesh) :
        /\ \E t \in 1..Len(m.elements) : m.elements[t].region = "solid"
        /\ \E t \in 1..Len(m.elements) : m.elements[t].region = "void"
        /\ _define_regions(m, Geo) = m

\* the entry of mesh.bc for load case l and mounting point j (both from 1)
ForceEntry(m, l, j) == m.bc[1 + (l - 1) * Len(Geo.mounting_points) + j]

\* node n lies in the mount z-band
InBand(n) == RLt(RSub(Geo.depth, Geo.mount_thickness), n[3]) /\ RLt(n[3], Geo.depth)

\* squared distance of node n from mounting point j, in the x-y plane
Dist2(n, j) ==
    RAdd(RMul(RSub(n[1], Geo.mounting_points[j][1]), RSub(n[1], Geo.mounting_points[j][1])),
         RMul(RSub(n[2], Geo.mounting_points[j][2]), RSub(n[2], Geo.mounting_points[j][2])))

Radius2 == RMul(Geo.mounting_hole_radius, Geo.mounting_hole_radius)

\* the ids of the nodes with zlo < z < zhi
IdsBetween(m, zlo, zhi) ==
    {t - 1 : t \in {u \in 1..Len(m.nodes) : RLt(zlo, m.nodes[u][3]) /\ RLt(m.nodes[u][3], zhi)}}

\* the ids of the nodes of the mount z-band
BandIds(m) == IdsBetween(m, RSub(Geo.depth, Geo.mount_thickness), Geo.depth)

Square(v) == RMul(v, v)

\* of the ids of band, those of the nodes whose squared distance from the
\* point p is <= r2
IdsWithin(m, band, p, r2) ==
    {t \in band : RLe(RAdd(Square(RSub(m.nodes[t + 1][1], p[1])),
                           Square(RSub(m.nodes[t + 1][2], p[2]))), r2)}

\* of the nodes of the band, those whose squared distance from mounting
\* point j is <= r^2
InsideIds(m, j, band) == IdsWithin(m, band, Geo.mounting_points[j], Radius2)

\* of the nodes of the band, the force set of every load case for mounting
\* point j holds exactly the ids inside
InForceSets(m, j, band, inside) ==
    \A l \in 1..Len(Lcs) : Range(ForceEntry(m, l, j)[2]) \cap band = inside

\* the same for every mounting point
InAllForceSets(m, band) ==
    \A j \in 1..Len(Geo.mounting_points) : InForceSets(m, j, band, InsideIds(m, j, band))

\* C7: a node in the mount z-band is in the force sets of a mounting point if
\* and only if its squared distance from the point is <= r^2.
C7_HoleInclusive == \A m \in Range(mesh) : InAllForceSets(m, BandIds(m))

\* in the z-band: the node on the mounting point and a node at distance r are
\* in the first force set, a node farther away is not
C7_Witness ==
    \E m \in Range(mesh) :
        /\ Len(Lcs) >= 1
        /\ \E t \in 1..Len(m.nodes) :
              /\ InBand(m.nodes[t]) /\ Dist2(m.nodes[t], 1) = R(0)
              /\ t - 1 \in Range(ForceEntry(m, 1, 1)[2])
        /\ \E t \in 1..Len(m.nodes) :
              /\ InBand(m.nodes[t]) /\ Dist2(m.nodes[t], 1) = Radius2
              /\ t - 1 \in Range(ForceEntry(m, 1, 1)[2])
        /\ \E t \in 1..Len(m.nodes) :
              /\ InBand(m.nodes[t]) /\ RLt(Radius2, Dist2(m.nodes[t], 1))
              /\ t - 1 \notin Range(ForceEntry(m, 1, 1)[2])

\* C8 (as claimed): in every named node set of mesh.bc each node id appears at
\* most once, whatever load cases the caller appended.
C8_NoDuplicateIds ==
    \A m \in Range(mesh) :
        \A t \in 1..Len(m.bc) : Cardinality(Range(m.bc[t][2])) = Len(m.bc[t][2])

\* C9 (as claimed): for every mounting index j and every two load cases A and
\* B of the list, mesh.bc holds two entries A_force_j and B_force_j with
\* distinct names and the same node ids.
C9_SeparateForceSets ==
    \A m \in Range(mesh) :
        \A j \in 1..Len(Geo.mounting_points) :
            \A a \in 1..Len(Lcs), b \in 1..Len(Lcs) :
                a # b =>
                    /\ ForceEntry(m, a, j)[1] = Lcs[a].name \o "_force_" \o ToString(j)
                    /\ ForceEntry(m, b, j)[1] = Lcs[b].name \o "_force_" \o ToString(j)
                    /\ ForceEntry(m, a, j)[1] # ForceEntry(m, b, j)[1]
                    /\ Range(ForceEntry(m, a, j)[2]) = Range(ForceEntry(m, b, j)[2])

\* C10: every node id in a named set of mesh.bc is the id of a node of the
\* current mesh, after any sequence of generate_adaptive_mesh calls.
C10_IdsInMesh ==
    \A m \in Range(mesh) :
        \A t \in 1..Len(m.bc) :
            \A s \in 1..Len(m.bc[t][2]) :
                0 <= m.bc[t][2][s] /\ m.bc[t][2][s] < Len(m.nodes)

\* a mesh that replaced the mesh of another configuration, and whose
\* back_support set holds the id of its last node
C10_Witness ==
    /\ regenerated
    /\ \E m \in Range(mesh) :
          /\ m.bc[1][2] # <<>>
          /\ m.bc[1][2][Len(m.bc[1][2])] = Len(m.nodes) - 1

\* reading a mesh file back: the position of the line that opens a block, the
\* lines of the block (up to the next empty line or the end of the file) and
\* the value of a "key value" header line
LineOf(content, first) ==
    CHOOSE t \in 1..Len(content) :
        /\ content[t] # <<>> /\ content[t][1] = first
        /\ \A u \in 1..(t - 1) : content[u] = <<>> \/ content[u][1] # first

BlockEnd(content, start) ==
    IF \E t \in (start + 1)..Len(content) : content[t] = <<>>
    THEN CHOOSE t \in (start + 1)..Len(content) :
            /\ content[t] = <<>>
            /\ \A u \in (start + 1)..(t - 1) : content[u] # <<>>
    ELSE Len(content) + 1

BlockLineCount(content, marker) ==
    BlockEnd(content, LineOf(content, marker)) - LineOf(content, marker) - 1

HeaderValue(content, key) == content[LineOf(content, key)][2]

MeshFiles == {f \in files : f.content[1] = <<"#", "ANSYS", "Mesh", "File">>}

\* C11: in every file written by write_ansys_mesh the NumNodes value of the
\* [Info] header equals the number of lines of the [Nodes] block and the
\* Num3DElements value equals the number of lines of the [Elements] block.
C11_HeaderCounts ==
    \A f \in MeshFiles :
        /\ HeaderValue(f.content, "NumNodes") = ToString(BlockLineCount(f.content, "[Nodes]"))
        /\ HeaderValue(f.content, "Num3DElements")
               = ToString(BlockLineCount(f.content, "[Elements]"))

\* a mesh of several nodes and elements has been written
C11_Witness ==
    \E f \in MeshFiles :
        /\ BlockLineCount(f.content, "[Nodes]") > 8
        /\ BlockLineCount(f.content, "[Elements]") > 1

\* C15 (as claimed): create_3d_mesh raises and returns no mesh whenever one of
\* width, height, depth is <= 0.
C15_NonPositiveSizeRaises ==
    \A c \in Range(created) :
        (~Positive(c.width) \/ ~Positive(c.height) \/ ~Positive(c.depth))
        => (c.raised /\ c.mesh = None)

\* a is an integer multiple of b (b # 0)
IsMultiple(a, b) == RDiv(a, b)[2] = 1

\* C16 (as claimed): a configuration whose wall or mount layer thickness is not
\* an integer multiple of dz = depth / nz is rejected before any element is
\* classified: no classified element of TvSupport.py and no classified mesh of
\* the optimizer comes from such a configuration.
C16_ThicknessValidated ==
    /\ script_element # None
       => /\ IsMultiple(RSub(WALL_PLATE_Z_MAX, WALL_PLATE_Z_MIN), RDiv(DEPTH, R(NZ)))
          /\ IsMultiple(RSub(TV_SURFACE_Z_MAX, TV_SURFACE_Z_MIN), RDiv(DEPTH, R(NZ)))
    /\ mesh # None
       => /\ IsMultiple(Geo.wall_thickness,
                        RDiv(Geo.depth, R(optimal_nz(Geo, built_from[1].base_resolution))))
          /\ IsMultiple(Geo.mount_thickness,
                        RDiv(Geo.depth, R(optimal_nz(Geo, built_from[1].base_resolution))))

Constructed == scenario \in {"optimizer", "configured", "pipeline"}

DefaultNames == {"static_tv_weight", "dynamic_vibration", "seismic_horizontal", "fatigue_cycling"}

\* C20 (as claimed): every constructed TVMountOptimizer, whatever config_file it
\* was given, has a load-case list that contains the four default load cases
\* and material properties for steel, aluminum and carbon fiber.
C20_DefaultsAlways ==
    Constructed
    => /\ DefaultNames \subseteq {lc.name : lc \in Range(load_cases)}
       /\ {"steel", "aluminum", "carbon_fiber"} \subseteq DOMAIN material_properties

\* the documents compiled by the last call, each with the load case, the
\* mounting points and the parameters it was compiled from
Compiled == IF last_call = None THEN <<>> ELSE last_call[1].compiled

\* reading a document back: the positions of the lines that open a force entry
ForcePositions(text) ==
    SelectSeq([t \in 1..Len(text) |-> t] \o <<>>, LAMBDA t : text[t][1] = "<force")

\* the six-decimal numeral of k millionths
Numeral(k) ==
    (IF k < 0 THEN "-" ELSE "") \o ToString(Abs(k) \div Pow6) \o "." \o Pad6(Abs(k) % Pow6)

\* the numeral token denotes exactly the value v
Denotes(token, v) == IsMultiple(v, Frac(1, Pow6)) /\ token = Numeral(Trunc(RMul(v, R(Pow6))))

\* the numeral token denotes a multiple of 1e-6 nearest to v
DenotesRounded(token, v) ==
    \E k \in (Trunc(RMul(v, R(Pow6))) - 1)..(Trunc(RMul(v, R(Pow6))) + 1) :
        /\ token = Numeral(k)
        /\ RLe(RSub(RMul(v, R(Pow6)), R(k)), Frac(1, 2))
        /\ RLe(RSub(R(k), RMul(v, R(Pow6))), Frac(1, 2))

\* the document c has one force entry per mounting point, at the positions pos,
\* entry i named <load case name>_force_<i>, with the components of
\* force_magnitude * force_direction, denoted exactly or to six decimal places
ForceEntriesOf(c, pos, exact) ==
    /\ Len(pos) = Len(c.mounting_points)
    /\ \A i \in 1..Len(pos) :
          /\ c.text[pos[i]] = <<"<force", "name", c.load_case.name \o "_force_" \o ToString(i)>>
          /\ \A k \in 1..3 :
                /\ c.text[pos[i] + k][1] = "<comp"
                /\ c.text[pos[i] + k][3] = <<"x", "y", "z">>[k]
                /\ IF exact
                   THEN Denotes(c.text[pos[i] + k][5],
                                RMul(c.load_case.force_magnitude, c.load_case.force_direction[k]))
                   ELSE DenotesRounded(c.text[pos[i] + k][5],
                                RMul(c.load_case.force_magnitude, c.load_case.force_direction[k]))

\* C12 (as claimed): the document compiled for a load case has exactly one force
\* entry per mounting point, entry i named <load case name>_force_<i>, and the
\* components of every entry equal force_magnitude times the component of
\* force_direction.
C12_ExactComponents ==
    \A t \in 1..Len(Compiled) :
        ForceEntriesOf(Compiled[t], ForcePositions(Compiled[t].text), TRUE)

\* C12 (amended): ... and the components of every entry are force_magnitude
\* times the component of force_direction rounded to six decimal places.
C12_RoundedComponents ==
    \A t \in 1..Len(Compiled) :
        ForceEntriesOf(Compiled[t], ForcePositions(Compiled[t].text), FALSE)

\* documents of two mounting points have been compiled, one of them for a load
\* case whose components have more than six decimal places
C12_Witness ==
    /\ \E t \in 1..Len(Compiled) :
          /\ Len(Compiled[t].mounting_points) = 2
          /\ Compiled[t].load_case.name = "thermal_expansion"
          /\ Len(ForcePositions(Compiled[t].text)) = 2
    /\ \E t \in 1..Len(Compiled) : Compiled[t].load_case.name = "seismic_horizontal"

\* the last call, if it is a call of op
LastCall(op) == {c \in Range(last_call) : c.op = op}

\* C13 (as claimed): after generate_xml_configurations() returns, for every load
\* case a file TvSupport_<load case name>.xml exists in the working directory
\* the caller was in at the time of the call.
C13_DocumentsInCwd ==
    \A c \in LastCall("generate_xml_configurations") :
        c.outcome = "returned"
        => \A t \in 1..Len(load_cases) :
              Exists(c.cwd \o <<"TvSupport_" \o load_cases[t].name \o ".xml">>, files, dirs)

\* an optimizer with nothing but the inputs of a compilation: the load case,
\* the mounting points and the optimization parameters
Fresh(lc, points, parameters) ==
    [geometry |-> [GeometryConfig EXCEPT !.mounting_points = points],
     base_resolution |-> DefaultBaseResolution,
     optimization_config |-> parameters,
     load_cases |-> <<lc>>,
     material_properties |-> <<>>,
     mesh |-> None,
     results |-> <<>>]

\* C14: the text of a document is determined by the load case, the mounting
\* points and the optimization parameters: every compilation, in whatever state
\* of the optimizer (mesh, earlier runs, results, materials, directory, time),
\* gives the text these inputs give on an optimizer that holds nothing else.
C14_DeterminedByInputs ==
    \A t \in 1..Len(Compiled) :
        Compiled[t].text
            = xml_content(Fresh(Compiled[t].load_case, Compiled[t].mounting_points,
                                Compiled[t].parameters),
                          Compiled[t].load_case)

\* documents compiled by generate_xml_configurations after a run that left a
\* mesh and results, and in another geometry than the default one
C14_Witness ==
    /\ LastCall("generate_xml_configurations") # {}
    /\ Len(Compiled) >= 4
    /\ mesh # None /\ results # <<>> /\ now > T0
    /\ material_properties # <<>>
    /\ geometry[1] # GeometryConfig

\* the lines of the [BoundaryConditions] block of a mesh file
BoundaryBlock(content) ==
    SubSeq(content, LineOf(content, "[BoundaryConditions]") + 1, Len(content))

\* C17 (as claimed): with fail-fast selection no mesh with an empty force set
\* is serialized: every force set line of a written mesh file counts at least
\* one node.
C17_NoEmptyForceSetSerialized ==
    \A f \in MeshFiles :
        \A t \in 1..Len(BoundaryBlock(f.content)) :
            BoundaryBlock(f.content)[t][1] # "back_support:"
            => BoundaryBlock(f.content)[t][2] # "0"

\* the mesh file a run at the time now writes in the directory dir
RunMeshFile(dir) == _generate_mesh_filename(dir, base_resolution, now)

\* C18: a run_optimization whose mesh generation fails returns an error result
\* and writes no file; the mesh file a run writes is the text of the stored
\* mesh after classification and selection: the tags of all its elements and
\* one set for the back support and for every load case and mounting point.
C18_SerializedAfterGeneration ==
    \A c \in LastCall("run_optimization") :
        /\ c.error = "Mesh generation failed" => (c.outcome = "error" /\ c.written = {})
        /\ generated = "False" => c.error = "Mesh generation failed"
        /\ \A f \in files :
              (f.path \in c.written /\ f.path = RunMeshFile(c.cwd))
              => /\ mesh # None
                 /\ Len(mesh[1].bc) = 1 + Len(load_cases) * Len(geometry[1].mounting_points)
                 /\ BlockLineCount(f.content, "[BoundaryConditions]") = Len(mesh[1].bc)
                 /\ f.content = MeshFileContent(mesh[1])

\* a run that wrote the file of a mesh with solid elements and nodes in a force set
C18_Witness ==
    \E c \in LastCall("run_optimization") :
        /\ c.outcome = "returned"
        /\ \E f \in files :
              /\ f.path \in c.written /\ f.path = RunMeshFile(c.cwd)
              /\ \E t \in 1..Len(f.content) : f.content[t] = <<"1", "brick", "solid">>
              /\ \E t \in 1..Len(BoundaryBlock(f.content)) :
                    /\ BoundaryBlock(f.content)[t][1] # "back_support:"
                    /\ BoundaryBlock(f.content)[t][2] # "0"

\* both loops have finished and the entries are appended
BothDone == /\ task_mesh # None
            /\ classified = Len(task_mesh[1].elements)
            /\ appended

\* C19: whatever the interleaving of the per-element steps of the classifier
\* and the per-node steps of the selector, once both have finished every
\* element has the tag and every named set the node ids that the sequential
\* order of generate_adaptive_mesh gives.
C19_InterleavingIndependent ==
    BothDone
    => LET sequential == AdaptiveMesh(geometry[1], base_resolution, load_cases)
       IN  /\ \A t \in 1..Len(sequential.elements) :
                  task_mesh[1].elements[t].region = sequential.elements[t].region
           /\ Len(task_mesh[1].bc) = Len(sequential.bc)
           /\ \A t \in 1..Len(sequential.bc) :
                  /\ task_mesh[1].bc[t][1] = sequential.bc[t][1]
                  /\ task_mesh[1].bc[t][2] = sequential.bc[t][2]

\* both loops have finished after elements were classified in the middle of the
\* node loop; the mesh has solid elements and nodes in a force set
C19_Witness ==
    /\ BothDone
    /\ mixed
    /\ \E t \in 1..Len(task_mesh[1].elements) : task_mesh[1].elements[t].region = "solid"
    /\ \E t \in 2..Len(task_mesh[1].bc) : task_mesh[1].bc[t][2] # <<>>

-----------------------------------------------------------------------------
(* The result of run_optimization *)

\* the keys of the dict a run returns without error
ResultDictKeys == {"load_cases", "material", "optimization_time", "mesh_file", "convergence"}

\* the entries of results['load_cases'] that carry the name and the safety
\* factor of the load case lc, with max_stress and max_displacement
EntriesFor(lc) ==
    {u \in 1..Len(results.load_cases) :
        /\ results.load_cases[u].name = lc.name
        /\ results.load_cases[u].safety_factor = lc.safety_factor
        /\ {"max_stress", "max_displacement"} \subseteq DOMAIN results.load_cases[u]}

\* C21: run_optimization never raises to its caller; when it returns no error
\* result, the dict it returns has the keys load_cases, material,
\* optimization_time, mesh_file and convergence, and load_cases holds one entry
\* per load case of the optimizer, each with max_stress, max_displacement and
\* the safety factor of that load case.
C21_OneEntryPerLoadCase ==
    \A c \in LastCall("run_optimization") :
        /\ c.outcome \in {"error", "returned"}
        /\ c.outcome = "returned" =>
              /\ ResultDictKeys \subseteq DOMAIN results
              /\ Len(results.load_cases) = Len(load_cases)
              /\ \A t \in 1..Len(load_cases) : EntriesFor(load_cases[t]) # {}

-----------------------------------------------------------------------------
(* The lattice of the grid generator *)

\* the id of the node with the lattice indices (i, j, k)
LatticeId(i, j, k, nx, ny) == i + j * (nx + 1) + k * (nx + 1) * (ny + 1)

\* i * size / n
LatticeCoordinate(i, size, n) == RDiv(RMul(R(i), size), R(n))

\* the n + 1 lattice coordinates of an axis, that of the index i at i + 1
AxisCoordinates(size, n) == [t \in 1..(n + 1) |-> LatticeCoordinate(t - 1, size, n)] \o <<>>

\* the node of the lattice indices (i, j, k) has the coordinates (xs[i + 1],
\* ys[j + 1], zs[k + 1])
InOrderOn(nodes, nx, ny, xs, ys, zs) ==
    \A i \in 0..(Len(xs) - 1), j \in 0..(Len(ys) - 1), k \in 0..(Len(zs) - 1) :
        nodes[LatticeId(i, j, k, nx, ny) + 1] = <<xs[i + 1], ys[j + 1], zs[k + 1]>>

\* the node list holds the lattice of nx x ny x nz cells of a width x height x
\* depth domain in the order of the ids (the node of id t is nodes[t + 1])
InLatticeOrder(nodes, nx, ny, nz, width, height, depth) ==
    InOrderOn(nodes, nx, ny, AxisCoordinates(width, nx), AxisCoordinates(height, ny),
              AxisCoordinates(depth, nz))

\* C22: nodes are generated with k outermost, then j, then i: the node with the
\* lattice indices (i, j, k) has the id i + j*(nx+1) + k*(nx+1)*(ny+1) and the
\* coordinates (i*width/nx, j*height/ny, k*depth/nz), for every resolution and
\* domain size, in the meshes of direct callers and of the optimizer.
C22_LatticeOrder ==
    /\ \A c \in Range(created) :
          c.mesh # None =>
              InLatticeOrder(c.mesh[1].nodes, c.nx, c.ny, c.nz, c.width, c.height, c.depth)
    /\ \A m \in Range(mesh) :
          InLatticeOrder(m.nodes, optimal_nx(Geo, built_from[1].base_resolution),
                         optimal_ny(Geo, built_from[1].base_resolution),
                         optimal_nz(Geo, built_from[1].base_resolution),
                         Geo.width, Geo.height, Geo.depth)

\* a direct call built a 3 x 2 x 1 lattice of a 6 x 6 x 6 domain whose node
\* (1, 2, 1) has the id 21 and the coordinates (2, 6, 6)
C22_Witness ==
    \E c \in Range(created) :
        /\ c.nx = 3 /\ c.ny = 2 /\ c.nz = 1 /\ c.width = R(6) /\ c.mesh # None
        /\ LatticeId(1, 2, 1, c.nx, c.ny) = 21
        /\ c.mesh[1].nodes[22] = <<R(2), R(6), R(6)>>

\* the list index of the element of the cell (i, j, k), cells counted from 0
CellIndex(i, j, k, nx, ny) == i + j * nx + k * nx * ny + 1

\* the centre of the cell (i, j, k) of the lattice of a width x height x depth domain
CellCentre(i, j, k, nx, ny, nz, width, height, depth) ==
    <<RDiv(RMul(PlusHalf(i), width), R(nx)), RDiv(RMul(PlusHalf(j), height), R(ny)),
      RDiv(RMul(PlusHalf(k), depth), R(nz))>>

BarycentersAtCellCentres(elements, nx, ny, nz, width, height, depth) ==
    \A i \in 0..(nx - 1), j \in 0..(ny - 1), k \in 0..(nz - 1) :
        calc_barycenter(elements[CellIndex(i, j, k, nx, ny)])
            = CellCentre(i, j, k, nx, ny, nz, width, height, depth)

\* C23 (as claimed): for every resolution and every domain size the element of
\* the cell (i, j, k) has its barycenter at ((i+0.5)*width/nx,
\* (j+0.5)*height/ny, (k+0.5)*depth/nz), the centre of the cell spanned by its
\* eight lattice nodes, and calc_barycenter returns that point.
C23_BarycenterAtCellCentre ==
    /\ \A c \in Range(created) :
          (c.mesh # None /\ Positive(c.width) /\ Positive(c.height) /\ Positive(c.depth)) =>
              BarycentersAtCellCentres(c.mesh[1].elements, c.nx, c.ny, c.nz,
                                       c.width, c.height, c.depth)
    /\ \A m \in Range(mesh) :
          BarycentersAtCellCentres(m.elements, optimal_nx(Geo, built_from[1].base_resolution),
                                   optimal_ny(Geo, built_from[1].base_resolution),
                                   optimal_nz(Geo, built_from[1].base_resolution),
                                   Geo.width, Geo.height, Geo.depth)

-----------------------------------------------------------------------------
(* The predicate boxes and the configured domain *)

\* a box of the 10 x 8 reference domain scaled to a domain of width W and height H
Scaled(b, geo) ==
    [b EXCEPT !.lo = <<RMul(b.lo[1], RDiv(geo.width, R(10))),
                       RMul(b.lo[2], RDiv(geo.height, R(8))), b.lo[3]>>,
              !.hi = <<RMul(b.hi[1], RDiv(geo.width, R(10))),
                       RMul(b.hi[2], RDiv(geo.height, R(8))), b.hi[3]>>]

\* c lies in a box of the given tag among the scaled boxes
InScaled(c, boxes, tag, geo) == \E b \in boxes : b.tag = tag /\ Inside(c, Scaled(b, geo))

\* the tag the boxes scaled with W and H give the point c, tested in the
\* classifier's order: wall-plate solid, wall-plate void, TV solid, TV void
ScaledRegionFor(c, geo) ==
    LET wall == WallBoxes(R(0), geo.wall_thickness)
        tv == TvBoxes(RSub(geo.depth, geo.mount_thickness), geo.depth)
    IN  IF InScaled(c, wall, "solid", geo) THEN "solid"
        ELSE IF InScaled(c, wall, "void", geo) THEN "void"
        ELSE IF InScaled(c, tv, "solid", geo) THEN "solid"
        ELSE IF InScaled(c, tv, "void", geo) THEN "void"
        ELSE "mech"

\* C24 (as claimed): the predicate boxes scale with the configured domain: the
\* wall-plate solid box is x in (0.4W, 0.6W), y in (0, H), z in (0, t) and the
\* other boxes keep the ratios of the 10 x 8 x 6 reference domain, so every
\* element carries the tag these boxes give the barycenter the classifier
\* reads, for every configured width and height.
C24_BoxesScaleWithDomain ==
    \A m \in Range(mesh) :
        \A t \in 1..Len(m.elements) :
            m.elements[t].region = ScaledRegionFor(calc_barycenter(m.elements[t]), Geo)

-----------------------------------------------------------------------------
(* The name of the mesh file of a run *)

\* the path is the name _generate_mesh_filename gives a mesh of n elements
\* along x, at some time
NamesResolution(path, dir, n) == \E t \in Times : path = _generate_mesh_filename(dir, n, t)

\* C25 (as claimed): the name of the mesh file a run writes encodes the
\* resolution of the mesh in the file: the nx of the name is the number of
\* elements along x the mesh was generated with, and the name depends on
\* nothing but thickness and resolution, so that two files of the same mesh
\* have the same name.
C25_NameEncodesResolution ==
    \A c \in LastCall("run_optimization") :
        \A f \in MeshFiles :
            f.path \in c.written =>
                /\ NamesResolution(f.path, c.cwd,
                                   optimal_nx(Geo, built_from[1].base_resolution))
                /\ \A g \in MeshFiles :
                      (Parent(g.path) = Parent(f.path) /\ g.content = f.content)
                      => g.path = f.path

-----------------------------------------------------------------------------
(* One classification pass, element by element *)

\* no predicate of the classifier holds for the barycenter of e
MatchesNoPredicate(e, geo) ==
    /\ ~IsInWallSolid(e.center[1], e.center[2], e.center[3], geo)
    /\ ~IsInWallVoid(e.center[1], e.center[2], e.center[3], geo)
    /\ ~_is_in_tv_mount_region(e.center[1], e.center[2], e.center[3], geo)
    /\ ~_is_in_tv_void_region(e.center[1], e.center[2], e.center[3], geo)

\* the elements the pass has not reached carry the tag of their creation, and
\* an element the pass has left matching no predicate carries mech
CreatedMech ==
    \A m \in Range(task_mesh) :
        \A t \in 1..Len(m.elements) :
            /\ t > classified => m.elements[t].region = "mech"
            /\ (t <= classified /\ MatchesNoPredicate(m.elements[t], geometry[1]))
               => m.elements[t].region = "mech"

\* a step changes the tag of no element but the one the pass is at
WritesCurrentOnly ==
    \A t \in 1..Len(task_mesh[1].elements) :
        task_mesh'[1].elements[t].region # task_mesh[1].elements[t].region
        => (t = classified + 1 /\ classified' = t)

\* C26: every element is created with the tag mech, and one classification
\* pass writes the tag of each element at most once: the tag of an element
\* changes only in the step of the pass for that element, which the pass takes
\* once, and an element that matches no predicate ends the pass with mech.
C26_TagWrittenOnce == []CreatedMech /\ [][WritesCurrentOnly]_vars

\* the pass has finished and left solid elements and mech elements that match
\* no predicate
C26_Witness ==
    /\ task_mesh # None
    /\ classified = Len(task_mesh[1].elements)
    /\ \E t \in 1..classified : task_mesh[1].elements[t].region = "solid"
    /\ \E t \in 1..classified :
          /\ MatchesNoPredicate(task_mesh[1].elements[t], geometry[1])
          /\ task_mesh[1].elements[t].region = "mech"

-----------------------------------------------------------------------------
(* The cutout boxes of the TV layer *)

\* the top / bottom cutout box: 3 < x < 7 and (0 < y < 3 or 5 < y < 8)
InCutout(c) == In(3, c[1], 7) /\ (In(0, c[2], 3) \/ In(5, c[2], 8))

\* the edge void boxes leave x in (0, 1) or (9, 10)
AtEdge(c) == In(0, c[1], 1) \/ In(9, c[1], 10)

\* C27 (as claimed): in the TV layer the top / bottom cutout void box is the
\* side-support solid box, so it produces no void tag: every element tagged
\* void by a void predicate of the TV surface has its barycenter x in (0, 1)
\* or (9, 10), and every TV-layer element with its barycenter in the cutout
\* box is tagged solid.
C27_CutoutIsSolid ==
    /\ \A m \in Range(mesh) :
          \A t \in 1..Len(m.elements) :
              LET c == calc_barycenter(m.elements[t])
              IN  /\ (/\ m.elements[t].region = "void"
                      /\ ~IsInWallVoid(c[1], c[2], c[3], Geo)
                      /\ _is_in_tv_void_region(c[1], c[2], c[3], Geo)) => AtEdge(c)
                  /\ (InTvLayer(c[3], Geo) /\ InCutout(c)) => m.elements[t].region = "solid"
    /\ \A e \in Range(script_element) :
          LET c == calc_barycenter(e)
          IN  /\ (/\ e.region = "void"
                  /\ ~is_in_wall_void(c[1], c[2], c[3])
                  /\ is_in_tv_mounting_void(c[1], c[2], c[3])) => AtEdge(c)
              /\ (RBetween(TV_SURFACE_Z_MIN, c[3], TV_SURFACE_Z_MAX) /\ InCutout(c))
                 => e.region = "solid"

-----------------------------------------------------------------------------
(* The named sets and the faces of the domain *)

\* the node of the id t lies on the face z = 0 or on the face z = depth
OnZFace(m, t, geo) == m.nodes[t + 1][3] = R(0) \/ m.nodes[t + 1][3] = geo.depth

\* C28 (as claimed): both z-band tests of the node selection are strict, so no
\* node on the domain face z = 0 or on the domain face z = depth is a member
\* of a named set (back_support or a force set), for every resolution and
\* geometry.
C28_NoFaceNodeSelected ==
    \A m \in Range(mesh) :
        \A b \in 1..Len(m.bc) :
            \A p \in 1..Len(m.bc[b][2]) : ~OnZFace(m, m.bc[b][2][p], Geo)

-----------------------------------------------------------------------------
(* The names shared by the problem documents and the mesh *)

\* the problem documents among the files the call c wrote
RunDocuments(c) == {f \in files : f.path \in c.written /\ f.content[1][1] = "<?xml"}

\* the names a document refers to in elements of the given kind
Refs(content, element) ==
    {content[t][3] : t \in {u \in 1..Len(content) : content[u][1] = element}}

\* the names of the sets of self.mesh.bc
BcNames(m) == {m.bc[b][1] : b \in 1..Len(m.bc)}

\* C29: after a run_optimization that returns without error the problem
\* documents and the mesh agree on the names of the boundary conditions:
\* every force name a document of the run refers to is the name of a set of
\* mesh.bc, every force set of mesh.bc is referred to by exactly one document,
\* and the fix reference back_support names a set of mesh.bc.
C29_DocumentsNameMeshSets ==
    \A c \in LastCall("run_optimization") :
        c.outcome = "returned" =>
            /\ \A f \in RunDocuments(c) :
                  /\ Refs(f.content, "<force") \subseteq BcNames(mesh[1])
                  /\ Refs(f.content, "<fix") = {"back_support"}
                  /\ "back_support" \in BcNames(mesh[1])
            /\ \A b \in 2..Len(mesh[1].bc) :
                  Cardinality({f \in RunDocuments(c) :
                                  mesh[1].bc[b][1] \in Refs(f.content, "<force")}) = 1

\* a run returned for two mounting points and five load cases, one of them
\* appended by the caller
C29_Witness ==
    \E c \in LastCall("run_optimization") :
        /\ c.outcome = "returned"
        /\ Len(geometry[1].mounting_points) = 2
        /\ Len(load_cases) = 5
        /\ load_cases[5].name = "thermal_expansion"
        /\ Cardinality(RunDocuments(c)) = 5
        /\ Len(mesh[1].bc) = 11

-----------------------------------------------------------------------------
(* The stored results of a failed run *)

\* C30 (as claimed): when run_optimization returns an error result,
\* self.results is what it was before the call, whichever step failed (mesh
\* generation, mesh writing, document generation, load-case analysis or
\* report generation).
C30_FailedRunKeepsResults ==
    \A c \in LastCall("run_optimization") :
        c.outcome = "error" => results = c.results_before

=============================================================================
